---- MODULE Spec2Model ----
(***************************************************************************)
(* Model of the TCP server of src/src/server.rs: the accept loop of        *)
(* Server::run, the connection task it spawns per accepted socket, the     *)
(* shared AtomicBool is_running, the Mutex<ServerState> counter, and       *)
(* Server::stop as called by the test thread of src/tests/client_test.rs.  *)
(*                                                                         *)
(* Scaling.  i32 is modelled with IntBits bits instead of 32 and the read  *)
(* buffer of Client::handle with BufCap cells instead of 1024: arithmetic  *)
(* wraps at 2^IntBits and a read returns at most BufCap cells.             *)
(*                                                                         *)
(* Network.  A socket's receive queue is the sequence of cells the client  *)
(* has written and the task has not yet read; one client send arrives      *)
(* whole and a read returns every cell available, up to the buffer size.   *)
(* Every system call the code checks the result of may fail.               *)
(***************************************************************************)
EXTENDS Integers, Sequences, FiniteSets, TLC

\* ------------------------------------------------------------------ bounds
MaxConn == 2
MaxStops == 2
MaxSends == 1
MaxStr == 3
NChars == 2
IntBits == 3
BufCap == 4

Conns == 1..MaxConn        \* identities of the client connections
Chars == 1..NChars         \* alphabet of Echo contents
NoConn == 0                \* "no connection" in srvConn
SERVER == 0                \* the accept loop as owner of the mutex
FREE == -1                 \* the mutex is not held

\* ------------------------------------------------------------ i32 arithmetic
IntMod == 2 ^ IntBits
IntMin == -(2 ^ (IntBits - 1))
IntMax == (2 ^ (IntBits - 1)) - 1
Int32 == IntMin..IntMax

\* a + b of two i32 in a build without overflow checks (release profile)
wrapping_add(a, b) == ((a + b - IntMin) % IntMod) + IntMin

\* whether a + b of two i32 overflows (a panic in a build with overflow checks)
add_overflows(a, b) == (a + b) \notin Int32

\* ------------------------------------------------------------------ messages
\* message::ClientMessage: the oneof `message` is echo, add, or not set
EchoMessage(content) == [kind |-> "echo", content |-> content, a |-> 0, b |-> 0]
AddRequest(a, b) == [kind |-> "add", content |-> <<>>, a |-> a, b |-> b]
EmptyMessage == [kind |-> "none", content |-> <<>>, a |-> 0, b |-> 0]

\* message::ServerMessage: echo or add_response
ServerEcho(content) == [kind |-> "echo", content |-> content, result |-> 0]
AddResponse(result) == [kind |-> "add_response", content |-> <<>>, result |-> result]
ServerEmpty == [kind |-> "none", content |-> <<>>, result |-> 0]

\* -------------------------------------------------------------------- codec
\* The wire form: a sequence of fields, each <<tag, length>> then `length`
\* cells of payload.  An unknown tag is skipped, the last known field of the
\* oneof wins, a field cut short is a decode error.
TagEcho == 1
TagAdd == 2
TagUnknown == 3

EncodeClient(m) ==
    IF m.kind = "echo" THEN <<TagEcho, Len(m.content)>> \o m.content
    ELSE IF m.kind = "add" THEN <<TagAdd, 2, m.a, m.b>>
    ELSE <<>>

EncodeServer(m) ==
    IF m.kind = "echo" THEN <<TagEcho, Len(m.content)>> \o m.content
    ELSE IF m.kind = "add_response" THEN <<TagAdd, 1, m.result>>
    ELSE <<>>

DecodeError == [ok |-> FALSE, msg |-> EmptyMessage]

RECURSIVE DecodeClientFields(_, _)
DecodeClientFields(bytes, cur) ==
    IF bytes = <<>> THEN [ok |-> TRUE, msg |-> cur]
    ELSE IF Len(bytes) < 2 THEN DecodeError
    ELSE LET tag == bytes[1]
             len == bytes[2]
         IN  IF tag <= 0 \/ len < 0 \/ Len(bytes) < 2 + len THEN DecodeError
             ELSE LET payload == SubSeq(bytes, 3, 2 + len)
                      rest == SubSeq(bytes, 3 + len, Len(bytes))
                  IN  IF tag = TagEcho
                          THEN DecodeClientFields(rest, EchoMessage(payload))
                      ELSE IF tag = TagAdd
                          THEN IF len = 2
                                  THEN DecodeClientFields(rest, AddRequest(payload[1], payload[2]))
                                  ELSE DecodeError
                      ELSE DecodeClientFields(rest, cur)

\* ClientMessage::decode(&buffer[..bytes_read])
DecodeClient(bytes) == DecodeClientFields(bytes, EmptyMessage)

ServerDecodeError == [ok |-> FALSE, msg |-> ServerEmpty]

\* ServerMessage::decode as the test client applies it to one response
DecodeServer(bytes) ==
    IF Len(bytes) < 2 THEN ServerDecodeError
    ELSE IF Len(bytes) # 2 + bytes[2] THEN ServerDecodeError
    ELSE IF bytes[1] = TagEcho
        THEN [ok |-> TRUE, msg |-> ServerEcho(SubSeq(bytes, 3, Len(bytes)))]
    ELSE IF bytes[1] = TagAdd /\ bytes[2] = 1
        THEN [ok |-> TRUE, msg |-> AddResponse(bytes[3])]
    ELSE ServerDecodeError

\* ------------------------------------------------------------ Client::handle
\* What the environment does to the system calls of one handle() call.
Faults == {"none", "read_err", "write_wouldblock", "write_err"}

Min(x, y) == IF x < y THEN x ELSE y

\* self.stream.read(&mut buffer) on the non-blocking socket
read(avail, peerClosed, fault) ==
    IF fault = "read_err" THEN [kind |-> "err", n |-> 0]
    ELSE IF avail # <<>> THEN [kind |-> "ok", n |-> Min(Len(avail), BufCap)]
    ELSE IF peerClosed THEN [kind |-> "ok", n |-> 0]
    ELSE [kind |-> "wouldblock", n |-> 0]

\* write_all(&payload)?; flush()?; Ok(true)
send_response(response, fault) ==
    IF fault = "write_wouldblock"
        THEN [result |-> "Error", nread |-> 0, written |-> <<>>,
              err |-> "WouldBlock", undecoded |-> FALSE]
    ELSE IF fault = "write_err"
        THEN [result |-> "Error", nread |-> 0, written |-> <<>>,
              err |-> "Other", undecoded |-> FALSE]
    ELSE [result |-> "Continue", nread |-> 0, written |-> <<EncodeServer(response)>>,
          err |-> "none", undecoded |-> FALSE]

\* faulty variant: the response carries an empty content
handle_echo_DropsContent(echo, fault) == send_response(ServerEcho(<<>>), fault)

handle_echo(echo, fault) == send_response(ServerEcho(echo.content), fault)

\* let result = add.a + add.b: panics on overflow when the build checks
\* overflow (debug), wraps when it does not (release)
handle_add(add, fault, overflowChecks) ==
    IF overflowChecks /\ add_overflows(add.a, add.b)
        THEN [result |-> "Panic", nread |-> 0, written |-> <<>>,
              err |-> "none", undecoded |-> FALSE]
        ELSE send_response(AddResponse(wrapping_add(add.a, add.b)), fault)

\* faulty variant: a decode error is returned as an error of the connection
dispatch_DecodeErrorFatal(d, fault, overflowChecks) ==
    IF ~d.ok
        THEN [result |-> "Error", nread |-> 0, written |-> <<>>,
              err |-> "Other", undecoded |-> TRUE]
    ELSE IF d.msg.kind = "echo" THEN handle_echo(d.msg, fault)
    ELSE IF d.msg.kind = "add" THEN handle_add(d.msg, fault, overflowChecks)
    ELSE [result |-> "Continue", nread |-> 0, written |-> <<>>,
          err |-> "none", undecoded |-> FALSE]

\* The dispatch on the decoded message (the inner match of handle); nread is
\* filled in by handle
dispatch(d, fault, overflowChecks) ==
    IF ~d.ok
        THEN [result |-> "Continue", nread |-> 0, written |-> <<>>,
              err |-> "none", undecoded |-> TRUE]
    ELSE IF d.msg.kind = "echo" THEN handle_echo(d.msg, fault)
    ELSE IF d.msg.kind = "add" THEN handle_add(d.msg, fault, overflowChecks)
    ELSE [result |-> "Continue", nread |-> 0, written |-> <<>>,
          err |-> "none", undecoded |-> FALSE]

\* One handle() call: result is Continue (Ok(true)), Closed (Ok(false)),
\* Error (Err(e), with err the kind of e) or Panic; nread cells are consumed
\* from the socket, `written` holds the responses written to it (none or
\* one) and undecoded tells that the cells read failed to decode.
handle(avail, peerClosed, fault, overflowChecks) ==
    LET r == read(avail, peerClosed, fault)
    IN  IF r.kind = "err"
            THEN [result |-> "Error", nread |-> 0, written |-> <<>>,
                  err |-> "Other", undecoded |-> FALSE]
        ELSE IF r.kind = "wouldblock"
            THEN [result |-> "Continue", nread |-> 0, written |-> <<>>,
                  err |-> "none", undecoded |-> FALSE]
        ELSE IF r.n = 0
            THEN [result |-> "Closed", nread |-> 0, written |-> <<>>,
                  err |-> "none", undecoded |-> FALSE]
        ELSE [dispatch(DecodeClient(SubSeq(avail, 1, r.n)), fault, overflowChecks)
                 EXCEPT !.nread = r.n]

\* -------------------------------------------------------------------- inputs
RECURSIVE SeqsUpTo(_, _)
SeqsUpTo(S, n) ==
    IF n = 0 THEN {<<>>}
    ELSE SeqsUpTo(S, n - 1) \cup {Append(q, x) : q \in {r \in SeqsUpTo(S, n - 1) : Len(r) = n - 1}, x \in S}

Strs == SeqsUpTo(Chars, MaxStr)

\* every request a client can build
ClientMsgs ==
    {EchoMessage(s) : s \in Strs} \cup {AddRequest(a, b) : a \in Int32, b \in Int32}

\* cells that are no encoding of a request: a lone tag, a field cut short,
\* an invalid tag, and an envelope holding only an unknown field
Malformed == {<<TagEcho>>, <<TagEcho, 2, 1>>, <<0, 0>>, <<TagUnknown, 0>>}

\* what the socket of one connection may hold when handle() is studied alone
HandleInputs == {<<>>} \cup {EncodeClient(m) : m \in ClientMsgs} \cup Malformed

\* what the clients of the concurrent specification send
Requests ==
    {EncodeClient(EchoMessage(<<1>>)), EncodeClient(AddRequest(IntMax, 1))}

\* an Echo content of the greatest length, whose encoding exceeds the buffer
LongStr == [i \in 1..MaxStr |-> 1]

\* an Echo content that fills the buffer and goes on with cells that read as
\* the encoding of another Echo request
TailStr == [i \in 1..(BufCap - 2) |-> 1] \o EncodeClient(EchoMessage(<<1>>))

\* what the client of the single-connection specification sends
ConnInputs ==
    Malformed
    \cup {EncodeClient(EchoMessage(s)) : s \in {<<>>, <<1>>, LongStr, TailStr}}
    \cup {EncodeClient(AddRequest(IntMax, 1)), EncodeClient(AddRequest(1, 1))}

\* --------------------------------------------------------------------- state
VARIABLES
    is_running,        \* Server.is_running: Arc<AtomicBool>
    connection_count,  \* ServerState.connection_count
    mutex,             \* owner of the Mutex<ServerState>: FREE, SERVER or a task
    overflow_checks,   \* whether the build panics on integer overflow
    srvPc,             \* position of the thread executing run()
    srvConn,           \* the connection accepted in the current iteration
    stopPc,            \* position of the test thread inside stop()
    stopCalls,         \* calls of stop() begun so far
    backlog,           \* connections established and not yet accepted
    cli,               \* each client: "new", "connected" or "closed"
    sends,             \* messages each client has sent
    inbox,             \* cells received on each socket and not yet read
    out,               \* responses written to each socket, in order
    taskPc,            \* position of each connection task
    incs,              \* history: increments done for each connection
    decs,              \* history: decrements done by each connection's task
    task_err,          \* the kind of e while a task is in its Err(e) arm
    failed,            \* history: a read of the connection failed to decode
    sent               \* history: what each client sent, and when

vars == <<is_running, connection_count, mutex, overflow_checks, srvPc, srvConn,
          stopPc, stopCalls, backlog, cli, sends, inbox, out, taskPc, incs, decs,
          task_err, failed, sent>>

srvVars == <<srvPc, srvConn>>
stopVars == <<stopPc, stopCalls>>
cliVars == <<cli, sends>>
sockVars == <<inbox, out>>
hist == <<incs, decs>>
taskObs == <<task_err, failed>>

\* Server::new, then setup_server_thread has spawned the thread that will
\* call run(); the build profile is fixed for the whole execution.
Init ==
    /\ is_running = FALSE
    /\ connection_count = 0
    /\ mutex = FREE
    /\ overflow_checks \in BOOLEAN
    /\ srvPc = "start"
    /\ srvConn = NoConn
    /\ stopPc = "idle"
    /\ stopCalls = 0
    /\ backlog = <<>>
    /\ cli = [c \in Conns |-> "new"]
    /\ sends = [c \in Conns |-> 0]
    /\ inbox = [c \in Conns |-> <<>>]
    /\ out = [c \in Conns |-> <<>>]
    /\ taskPc = [c \in Conns |-> "none"]
    /\ incs = [c \in Conns |-> 0]
    /\ decs = [c \in Conns |-> 0]
    /\ task_err = [c \in Conns |-> "none"]
    /\ failed = [c \in Conns |-> FALSE]
    /\ sent = [c \in Conns |-> <<>>]

\* ------------------------------------------------------------- Server::run
\* self.is_running.store(true, SeqCst)
SrvStart ==
    /\ srvPc = "start"
    /\ is_running' = TRUE
    /\ srvPc' = "setup"
    /\ UNCHANGED <<connection_count, mutex, overflow_checks, srvConn, stopVars,
                   backlog, cliVars, sockVars, taskPc, hist, taskObs, sent>>

\* local_addr()? and listener.set_nonblocking(true)? both succeed
SrvSetupOk ==
    /\ srvPc = "setup"
    /\ srvPc' = "loop"
    /\ UNCHANGED <<is_running, connection_count, mutex, overflow_checks, srvConn,
                   stopVars, backlog, cliVars, sockVars, taskPc, hist, taskObs, sent>>

\* one of them fails: run() returns Err before its loop
SrvSetupErr ==
    /\ srvPc = "setup"
    /\ srvPc' = "err"
    /\ UNCHANGED <<is_running, connection_count, mutex, overflow_checks, srvConn,
                   stopVars, backlog, cliVars, sockVars, taskPc, hist, taskObs, sent>>

\* faulty variant: the loop condition ignores the flag
SrvLoop_IgnoresFlag ==
    /\ srvPc = "loop"
    /\ srvPc' = "accept"
    /\ UNCHANGED <<is_running, connection_count, mutex, overflow_checks, srvConn,
                   stopVars, backlog, cliVars, sockVars, taskPc, hist, taskObs, sent>>

\* faulty variant: after the flag is cleared the loop waits for the tasks
SrvLoop_JoinsTasks ==
    /\ srvPc = "loop"
    /\ is_running \/ \A c \in Conns : taskPc[c] \in {"none", "done", "panicked"}
    /\ srvPc' = IF is_running THEN "accept" ELSE "ok"
    /\ UNCHANGED <<is_running, connection_count, mutex, overflow_checks, srvConn,
                   stopVars, backlog, cliVars, sockVars, taskPc, hist, taskObs, sent>>

\* while self.is_running.load(SeqCst); after the loop: Ok(())
SrvLoop ==
    /\ srvPc = "loop"
    /\ srvPc' = IF is_running THEN "accept" ELSE "ok"
    /\ UNCHANGED <<is_running, connection_count, mutex, overflow_checks, srvConn,
                   stopVars, backlog, cliVars, sockVars, taskPc, hist, taskObs, sent>>

\* self.listener.accept() returns Ok((stream, addr))
SrvAcceptOk ==
    /\ srvPc = "accept"
    /\ backlog # <<>>
    /\ srvConn' = Head(backlog)
    /\ backlog' = Tail(backlog)
    /\ srvPc' = "lock"
    /\ UNCHANGED <<is_running, connection_count, mutex, overflow_checks, stopVars,
                   cliVars, sockVars, taskPc, hist, taskObs, sent>>

\* accept() returns WouldBlock: sleep 100 ms, next iteration
SrvAcceptWouldBlock ==
    /\ srvPc = "accept"
    /\ backlog = <<>>
    /\ srvPc' = "loop"
    /\ UNCHANGED <<is_running, connection_count, mutex, overflow_checks, srvConn,
                   stopVars, backlog, cliVars, sockVars, taskPc, hist, taskObs, sent>>

\* accept() returns another error: logged, next iteration
SrvAcceptErr ==
    /\ srvPc = "accept"
    /\ srvPc' = "loop"
    /\ UNCHANGED <<is_running, connection_count, mutex, overflow_checks, srvConn,
                   stopVars, backlog, cliVars, sockVars, taskPc, hist, taskObs, sent>>

\* faulty variant: the server enters the critical section without the lock
SrvLock_NoExclusion ==
    /\ srvPc = "lock"
    /\ mutex' = SERVER
    /\ srvPc' = "crit"
    /\ UNCHANGED <<is_running, connection_count, overflow_checks, srvConn, stopVars,
                   backlog, cliVars, sockVars, taskPc, hist, taskObs, sent>>

\* let mut state = self.state.lock().unwrap()
SrvLock ==
    /\ srvPc = "lock"
    /\ mutex = FREE
    /\ mutex' = SERVER
    /\ srvPc' = "crit"
    /\ UNCHANGED <<is_running, connection_count, overflow_checks, srvConn, stopVars,
                   backlog, cliVars, sockVars, taskPc, hist, taskObs, sent>>

\* faulty variant: the accepted connection is not counted
SrvInc_NotCounted ==
    /\ srvPc = "crit"
    /\ incs' = [incs EXCEPT ![srvConn] = @ + 1]
    /\ srvPc' = "log"
    /\ UNCHANGED <<is_running, connection_count, mutex, overflow_checks, srvConn,
                   stopVars, backlog, cliVars, sockVars, taskPc, decs, taskObs, sent>>

\* state.connection_count += 1
SrvInc ==
    /\ srvPc = "crit"
    /\ connection_count' = connection_count + 1
    /\ incs' = [incs EXCEPT ![srvConn] = @ + 1]
    /\ srvPc' = "log"
    /\ UNCHANGED <<is_running, mutex, overflow_checks, srvConn, stopVars, backlog,
                   cliVars, sockVars, taskPc, decs, taskObs, sent>>

\* info!("Active connections: ..."), then the guard is dropped at the block's end
SrvUnlock ==
    /\ srvPc = "log"
    /\ mutex' = FREE
    /\ srvPc' = "setnb"
    /\ UNCHANGED <<is_running, connection_count, overflow_checks, srvConn, stopVars,
                   backlog, cliVars, sockVars, taskPc, hist, taskObs, sent>>

\* stream.set_nonblocking(true)? succeeds
SrvSetNonblockingOk ==
    /\ srvPc = "setnb"
    /\ srvPc' = "spawn"
    /\ UNCHANGED <<is_running, connection_count, mutex, overflow_checks, srvConn,
                   stopVars, backlog, cliVars, sockVars, taskPc, hist, taskObs, sent>>

\* stream.set_nonblocking(true)? fails: run() returns Err, the stream is dropped
SrvSetNonblockingErr ==
    /\ srvPc = "setnb"
    /\ srvPc' = "err"
    /\ UNCHANGED <<is_running, connection_count, mutex, overflow_checks, srvConn,
                   stopVars, backlog, cliVars, sockVars, taskPc, hist, taskObs, sent>>

\* thread::spawn(move || { let mut client = Client::new(stream); ... })
SrvSpawn ==
    /\ srvPc = "spawn"
    /\ taskPc' = [taskPc EXCEPT ![srvConn] = "loop"]
    /\ srvConn' = NoConn
    /\ srvPc' = "loop"
    /\ UNCHANGED <<is_running, connection_count, mutex, overflow_checks, stopVars,
                   backlog, cliVars, sockVars, hist, taskObs, sent>>

\* ------------------------------------------------------ the connection task
\* while is_running.load(SeqCst)
TaskLoop(c) ==
    /\ taskPc[c] = "loop"
    /\ taskPc' = [taskPc EXCEPT ![c] = IF is_running THEN "handle" ELSE "lock"]
    /\ UNCHANGED <<is_running, connection_count, mutex, overflow_checks, srvVars,
                   stopVars, backlog, cliVars, sockVars, hist, taskObs, sent>>

\* faulty variant: Err(e) returns from the closure, past the decrement
AfterHandle_ErrorSkipsRelease(result) ==
    IF result = "Continue" THEN "loop"
    ELSE IF result = "Panic" THEN "panicked"
    ELSE IF result = "Error" THEN "done"
    ELSE "lock"

\* Where the task goes after handle(): Ok(true) sleeps 10 ms and loops,
\* Ok(false) and Err(e) break out of the loop, a panic unwinds the thread.
AfterHandle(result) ==
    IF result = "Continue" THEN "loop"
    ELSE IF result = "Panic" THEN "panicked"
    ELSE "lock"

\* faulty variant: every task writes to the socket of the first connection
TaskHandle_SharedSocket(c) ==
    /\ taskPc[c] = "handle"
    /\ \E fault \in Faults :
        \E h \in {handle(inbox[c], cli[c] = "closed", fault, overflow_checks)} :
            /\ inbox' = [inbox EXCEPT ![c] = SubSeq(@, h.nread + 1, Len(@))]
            /\ out' = [out EXCEPT ![1] = @ \o h.written]
            /\ taskPc' = [taskPc EXCEPT ![c] = AfterHandle(h.result)]
            /\ task_err' = [task_err EXCEPT ![c] = h.err]
            /\ failed' = [failed EXCEPT ![c] = @ \/ h.undecoded]
    /\ UNCHANGED <<is_running, connection_count, mutex, overflow_checks, srvVars,
                   stopVars, backlog, cliVars, hist, sent>>

\* faulty variant: a response is put in front of the earlier ones
TaskHandle_Prepends(c) ==
    /\ taskPc[c] = "handle"
    /\ \E fault \in Faults :
        \E h \in {handle(inbox[c], cli[c] = "closed", fault, overflow_checks)} :
            /\ inbox' = [inbox EXCEPT ![c] = SubSeq(@, h.nread + 1, Len(@))]
            /\ out' = [out EXCEPT ![c] = h.written \o @]
            /\ taskPc' = [taskPc EXCEPT ![c] = AfterHandle(h.result)]
            /\ task_err' = [task_err EXCEPT ![c] = h.err]
            /\ failed' = [failed EXCEPT ![c] = @ \/ h.undecoded]
    /\ UNCHANGED <<is_running, connection_count, mutex, overflow_checks, srvVars,
                   stopVars, backlog, cliVars, hist, sent>>

\* match client.handle() { ... }
TaskHandle(c) ==
    /\ taskPc[c] = "handle"
    /\ \E fault \in Faults :
        \E h \in {handle(inbox[c], cli[c] = "closed", fault, overflow_checks)} :
            /\ inbox' = [inbox EXCEPT ![c] = SubSeq(@, h.nread + 1, Len(@))]
            /\ out' = [out EXCEPT ![c] = @ \o h.written]
            /\ taskPc' = [taskPc EXCEPT ![c] = AfterHandle(h.result)]
            /\ task_err' = [task_err EXCEPT ![c] = h.err]
            /\ failed' = [failed EXCEPT ![c] = @ \/ h.undecoded]
    /\ UNCHANGED <<is_running, connection_count, mutex, overflow_checks, srvVars,
                   stopVars, backlog, cliVars, hist, sent>>

\* e is dropped with the Err(e) arm (lines 153-156); after the loop:
\* let mut state = thread_state.lock().unwrap()
TaskLock(c) ==
    /\ taskPc[c] = "lock"
    /\ mutex = FREE
    /\ mutex' = c
    /\ taskPc' = [taskPc EXCEPT ![c] = "crit"]
    /\ task_err' = [task_err EXCEPT ![c] = "none"]
    /\ UNCHANGED <<is_running, connection_count, overflow_checks, srvVars, stopVars,
                   backlog, cliVars, sockVars, hist, failed, sent>>

\* state.connection_count -= 1
TaskDec(c) ==
    /\ taskPc[c] = "crit"
    /\ connection_count' = connection_count - 1
    /\ decs' = [decs EXCEPT ![c] = @ + 1]
    /\ taskPc' = [taskPc EXCEPT ![c] = "log"]
    /\ UNCHANGED <<is_running, mutex, overflow_checks, srvVars, stopVars, backlog,
                   cliVars, sockVars, incs, taskObs, sent>>

\* faulty variant: the task ends without dropping the guard
TaskExit_KeepsMutex(c) ==
    /\ taskPc[c] = "log"
    /\ taskPc' = [taskPc EXCEPT ![c] = "done"]
    /\ UNCHANGED <<is_running, connection_count, mutex, overflow_checks, srvVars,
                   stopVars, backlog, cliVars, sockVars, hist, taskObs, sent>>

\* info!("Client handler thread ... stopped"); the closure ends: the guard
\* and the stream are dropped and the thread terminates
TaskExit(c) ==
    /\ taskPc[c] = "log"
    /\ mutex' = FREE
    /\ taskPc' = [taskPc EXCEPT ![c] = "done"]
    /\ UNCHANGED <<is_running, connection_count, overflow_checks, srvVars, stopVars,
                   backlog, cliVars, sockVars, hist, taskObs, sent>>

\* ------------------------------------------------------------ Server::stop
\* faulty variant: stop() toggles the flag instead of clearing it
StopLoad_Toggles ==
    /\ stopPc = "idle"
    /\ stopCalls < MaxStops
    /\ stopCalls' = stopCalls + 1
    /\ stopPc' = IF is_running THEN "store" ELSE "idle"
    /\ is_running' = IF is_running THEN is_running ELSE TRUE
    /\ UNCHANGED <<connection_count, mutex, overflow_checks, srvVars,
                   backlog, cliVars, sockVars, taskPc, hist, taskObs, sent>>

\* if self.is_running.load(SeqCst) { ... } else { warn!(...) }
StopLoad ==
    /\ stopPc = "idle"
    /\ stopCalls < MaxStops
    /\ stopCalls' = stopCalls + 1
    /\ stopPc' = IF is_running THEN "store" ELSE "idle"
    /\ UNCHANGED <<is_running, connection_count, mutex, overflow_checks, srvVars,
                   backlog, cliVars, sockVars, taskPc, hist, taskObs, sent>>

\* self.is_running.store(false, SeqCst)
StopStore ==
    /\ stopPc = "store"
    /\ is_running' = FALSE
    /\ stopPc' = "idle"
    /\ UNCHANGED <<connection_count, mutex, overflow_checks, srvVars, stopCalls,
                   backlog, cliVars, sockVars, taskPc, hist, taskObs, sent>>

\* -------------------------------------------------------------- the clients
\* client.connect(): the listener is bound since Server::new, so the
\* connection is established and queued whether or not run() is accepting.
\* Clients connect in the order of their identities.
ClientConnect(c) ==
    /\ cli[c] = "new"
    /\ \A d \in Conns : d < c => cli[d] # "new"
    /\ cli' = [cli EXCEPT ![c] = "connected"]
    /\ backlog' = Append(backlog, c)
    /\ UNCHANGED <<is_running, connection_count, mutex, overflow_checks, srvVars,
                   stopVars, sends, sockVars, taskPc, hist, taskObs, sent>>

\* what is recorded of one send: the cells, what the socket still held, how
\* many responses the client had received, whether a read had failed to decode
SendRecord(c, m) ==
    [msg |-> m, pending |-> inbox[c], answered |-> Len(out[c]),
     after_failure |-> failed[c]]

\* client.send(message): one of msgs, at most `limit` times
ClientSendFrom(c, msgs, limit) ==
    /\ cli[c] = "connected"
    /\ sends[c] < limit
    /\ \E m \in msgs :
        /\ inbox' = [inbox EXCEPT ![c] = @ \o m]
        /\ sent' = [sent EXCEPT ![c] = Append(@, SendRecord(c, m))]
    /\ sends' = [sends EXCEPT ![c] = @ + 1]
    /\ UNCHANGED <<is_running, connection_count, mutex, overflow_checks, srvVars,
                   stopVars, backlog, cli, out, taskPc, hist, taskObs>>

\* the clients of the concurrent specification: one request each
ClientSend(c) == ClientSendFrom(c, Requests, MaxSends)

\* the client of the single-connection specification: several messages, one
\* after another, valid or not
ClientSendAny(c) == ClientSendFrom(c, ConnInputs, MaxSends + 1)

\* client.disconnect()
ClientClose(c) ==
    /\ cli[c] = "connected"
    /\ cli' = [cli EXCEPT ![c] = "closed"]
    /\ UNCHANGED <<is_running, connection_count, mutex, overflow_checks, srvVars,
                   stopVars, backlog, sends, sockVars, taskPc, hist, taskObs, sent>>

\* ------------------------------------------------------------ specification
Server ==
    \/ SrvStart \/ SrvSetupOk \/ SrvSetupErr \/ SrvLoop
    \/ SrvAcceptOk \/ SrvAcceptWouldBlock \/ SrvAcceptErr
    \/ SrvLock \/ SrvInc \/ SrvUnlock
    \/ SrvSetNonblockingOk \/ SrvSetNonblockingErr \/ SrvSpawn

Task(c) == TaskLoop(c) \/ TaskHandle(c) \/ TaskLock(c) \/ TaskDec(c) \/ TaskExit(c)

Stop == StopLoad \/ StopStore

Client(c) == ClientConnect(c) \/ ClientSend(c) \/ ClientClose(c)

Next == Server \/ Stop \/ (\E c \in Conns : Task(c) \/ Client(c))

Spec == Init /\ [][Next]_vars

\* Scheduling: the operating system runs every thread that can take a step
\* (the accept loop, each connection task, a stop() call under way); the
\* clients and the decision to call stop() are under no obligation.
Fairness ==
    /\ WF_vars(Server)
    /\ WF_vars(StopStore)
    /\ \A c \in Conns : WF_vars(Task(c))

FairSpec == Spec /\ Fairness

\* handle() studied alone: one connection has been accepted and its task
\* spawned, the client has sent one message (or nothing) and may have closed;
\* the task then runs its loop.
HandleInit ==
    /\ is_running = TRUE
    /\ connection_count = 1
    /\ mutex = FREE
    /\ overflow_checks \in BOOLEAN
    /\ srvPc = "loop"
    /\ srvConn = NoConn
    /\ stopPc = "idle"
    /\ stopCalls = 0
    /\ backlog = <<>>
    /\ cli \in {[c \in Conns |-> IF c = 1 THEN st ELSE "new"] : st \in {"connected", "closed"}}
    /\ inbox \in {[c \in Conns |-> IF c = 1 THEN i ELSE <<>>] : i \in HandleInputs}
    /\ sends = [c \in Conns |-> IF c = 1 /\ inbox[c] # <<>> THEN 1 ELSE 0]
    /\ out = [c \in Conns |-> <<>>]
    /\ taskPc = [c \in Conns |-> IF c = 1 THEN "loop" ELSE "none"]
    /\ incs = [c \in Conns |-> IF c = 1 THEN 1 ELSE 0]
    /\ decs = [c \in Conns |-> 0]
    /\ task_err = [c \in Conns |-> "none"]
    /\ failed = [c \in Conns |-> FALSE]
    /\ sent = [c \in Conns |->
                IF inbox[c] = <<>> THEN <<>>
                ELSE <<[msg |-> inbox[c], pending |-> <<>>, answered |-> 0,
                        after_failure |-> FALSE]>>]

HandleNext == \E c \in Conns : TaskLoop(c) \/ TaskHandle(c)

HandleSpec == HandleInit /\ [][HandleNext]_vars

\* One connection studied over several messages: the connection has been
\* accepted and its task spawned; the client sends up to MaxSends + 1
\* messages at any moments and may close.
ConnInit ==
    /\ is_running = TRUE
    /\ connection_count = 1
    /\ mutex = FREE
    /\ overflow_checks \in BOOLEAN
    /\ srvPc = "loop"
    /\ srvConn = NoConn
    /\ stopPc = "idle"
    /\ stopCalls = 0
    /\ backlog = <<>>
    /\ cli = [c \in Conns |-> IF c = 1 THEN "connected" ELSE "new"]
    /\ sends = [c \in Conns |-> 0]
    /\ inbox = [c \in Conns |-> <<>>]
    /\ out = [c \in Conns |-> <<>>]
    /\ taskPc = [c \in Conns |-> IF c = 1 THEN "loop" ELSE "none"]
    /\ incs = [c \in Conns |-> IF c = 1 THEN 1 ELSE 0]
    /\ decs = [c \in Conns |-> 0]
    /\ task_err = [c \in Conns |-> "none"]
    /\ failed = [c \in Conns |-> FALSE]
    /\ sent = [c \in Conns |-> <<>>]

ConnNext ==
    \E c \in Conns : TaskLoop(c) \/ TaskHandle(c) \/ ClientSendAny(c) \/ ClientClose(c)

ConnSpec == ConnInit /\ [][ConnNext]_vars

\* --------------------------------------------------------------- vocabulary
\* run() is inside its accept loop
InAcceptLoop == srvPc \in {"loop", "accept", "lock", "crit", "log", "setnb", "spawn"}

\* the thread executing run() has terminated
SrvTerminated == srvPc \in {"ok", "err"}

\* stop() has stored false: run() stored true first, and nothing stores true later
StopRequested == srvPc # "start" /\ ~is_running

\* the connection task exists and is inside its loop
InTaskLoop(c) == taskPc[c] \in {"loop", "handle"}

\* the connection task exists and has not terminated
TaskAlive(c) == taskPc[c] \in {"loop", "handle", "lock", "crit", "log"}

\* ------------------------------------------------------------------- claims
\* C1: whenever stop() has stored false while run() is inside its accept
\* loop, run() eventually returns Ok.
C1_ShutdownReturnsOk == (StopRequested /\ InAcceptLoop) ~> (srvPc = "ok")

\* Shutdown as the code provides it: run() eventually returns, Ok or Err.
ShutdownReturns == (StopRequested /\ InAcceptLoop) ~> SrvTerminated

\* C2: once the test thread has called stop() exactly once, the thread
\* executing run() eventually terminates, in every interleaving.
C2_TeardownTerminates ==
    (stopCalls = 1 /\ stopPc = "idle") ~> (SrvTerminated \/ stopCalls > 1)

\* C6: every connection task that is in its loop once stop() has stored
\* false eventually has decremented the counter and terminated.
C6_CooperativeCancellation ==
    \A c \in Conns :
        (StopRequested /\ InTaskLoop(c)) ~> (taskPc[c] = "done" /\ decs[c] = 1)

\* a step in which the task of connection c executes one handle() call
HandleStep(c) == taskPc[c] = "handle" /\ taskPc'[c] # "handle"

\* the response the specification asks for a request
Expected(m) ==
    IF m.kind = "echo" THEN ServerEcho(m.content)
    ELSE AddResponse(CHOOSE r \in Int32 : (r - (m.a + m.b)) % IntMod = 0)

\* connection c is counted: incremented for and not yet decremented for
HoldsCount(c) ==
    \/ srvConn = c /\ srvPc \in {"log", "setnb", "spawn", "err"}
    \/ taskPc[c] \in {"loop", "handle", "lock", "crit", "panicked"}

\* C3: connection_count equals the number of connection tasks that exist
\* and have not terminated.
C3_CounterEqualsLiveTasks ==
    connection_count = Cardinality({c \in Conns : TaskAlive(c)})

\* C3 as the code has it: connection_count equals the number of connections
\* counted and not yet released, that is the connection the accept loop has
\* incremented for and not yet spawned (or abandoned on an error), plus the
\* tasks that have not executed their decrement.
C3_CounterEqualsCounted ==
    connection_count = Cardinality({c \in Conns : HoldsCount(c)})

C3_Witness ==
    /\ connection_count = 1
    /\ taskPc[1] = "done"
    /\ taskPc[2] = "handle"

\* C4: every accepted connection is incremented for exactly once, and its
\* task has decremented exactly once when it has ended, whatever ended it.
C4_ExactlyOnceRelease ==
    \A c \in Conns :
        /\ incs[c] <= 1 /\ decs[c] <= incs[c]
        /\ taskPc[c] # "none" => incs[c] = 1
        /\ taskPc[c] \in {"done", "panicked"} => decs[c] = 1

\* the steps of the accept loop that take a connection in
AcceptStep == srvPc = "accept" /\ srvPc' = "lock"
IncStep == connection_count' > connection_count
SpawnStep == \E c \in Conns : taskPc[c] = "none" /\ taskPc'[c] # "none"

\* C5: once stop() has stored false, no accept succeeds, no increment
\* happens and no task is spawned.
C5_NoAcceptAfterStop ==
    [][StopRequested => ~(AcceptStep \/ IncStep \/ SpawnStep)]_vars

\* C5 as the code has it: once stop() has stored false the flag stays false
\* and the accept loop begins no further iteration, its next check of the
\* flag ends run(); only the iteration already past its check can still
\* accept, increment and spawn, once.
C5_NoNewIterationAfterStop ==
    [][StopRequested =>
        /\ StopRequested'
        /\ srvPc = "loop" => srvPc' \in {"loop", "ok"}
        /\ (AcceptStep \/ IncStep \/ SpawnStep) =>
              srvPc \in {"accept", "crit", "spawn"}]_vars

C5_Witness == StopRequested /\ srvPc = "ok" /\ backlog # <<>> /\ taskPc[1] # "none"

\* C7: a stop() call that finds the flag false changes nothing but the
\* caller's own progress and raises no error; one that finds it true stores
\* false and changes nothing else.
C7_StopIdempotent ==
    [][/\ (stopCalls' # stopCalls /\ ~is_running) =>
            /\ stopPc' = "idle"
            /\ UNCHANGED <<is_running, connection_count, mutex, srvVars, backlog,
                           cliVars, sockVars, taskPc, hist, taskObs, sent>>
       /\ (stopCalls' # stopCalls /\ is_running) => stopPc' = "store"
       /\ (stopPc = "store" /\ stopPc' # "store") =>
            /\ ~is_running'
            /\ UNCHANGED <<connection_count, mutex, srvVars, backlog, cliVars,
                           sockVars, taskPc, hist, taskObs, sent>>]_vars

C7_Witness == stopCalls = 2 /\ stopPc = "idle" /\ StopRequested

\* C8: a handle() call that reads Echo{s} and meets no I/O error writes
\* exactly one response, which decodes to Echo{s}, for every string s.
C8_EchoAnswered ==
    [][\A c \in Conns, s \in Strs :
        (HandleStep(c) /\ inbox[c] = EncodeClient(EchoMessage(s)) /\ taskPc'[c] # "lock") =>
            /\ Len(out'[c]) = Len(out[c]) + 1
            /\ SubSeq(out'[c], 1, Len(out[c])) = out[c]
            /\ DecodeServer(out'[c][Len(out'[c])]) = [ok |-> TRUE, msg |-> ServerEcho(s)]
            /\ inbox'[c] = <<>>]_vars

\* C8 as the code has it: the same for every string s whose encoded request
\* fits the read buffer, so that one read returns it whole.
C8_EchoAnsweredWithinBuffer ==
    [][\A c \in Conns, s \in Strs :
        (/\ HandleStep(c)
         /\ inbox[c] = EncodeClient(EchoMessage(s))
         /\ Len(EncodeClient(EchoMessage(s))) <= BufCap
         /\ taskPc'[c] # "lock") =>
            /\ Len(out'[c]) = Len(out[c]) + 1
            /\ SubSeq(out'[c], 1, Len(out[c])) = out[c]
            /\ DecodeServer(out'[c][Len(out'[c])]) = [ok |-> TRUE, msg |-> ServerEcho(s)]
            /\ inbox'[c] = <<>>]_vars

C8_Witness ==
    /\ out[1] = <<EncodeServer(ServerEcho(<<1, 2>>))>>
    /\ inbox[1] = <<>>
    /\ taskPc[1] = "loop"

\* C9: a handle() call that reads AddRequest{a,b} and meets no I/O error
\* writes AddResponse{result} with result the wrapped sum, and the task
\* carries on with its loop, for every pair of i32.
C9_AddWraps ==
    [][\A c \in Conns, a \in Int32, b \in Int32 :
        (HandleStep(c) /\ inbox[c] = EncodeClient(AddRequest(a, b)) /\ taskPc'[c] # "lock") =>
            /\ taskPc'[c] = "loop"
            /\ \E r \in Int32 :
                /\ (r - (a + b)) % IntMod = 0
                /\ (a + b) \in Int32 => r = a + b
                /\ out'[c] = Append(out[c], EncodeServer(AddResponse(r)))]_vars

\* what a handle() call may write given the cells available on its socket
Replies(cells) ==
    LET d == DecodeClient(SubSeq(cells, 1, Min(Len(cells), BufCap)))
    IN  {<<>>} \cup
        IF d.ok /\ d.msg.kind # "none" THEN {<<EncodeServer(Expected(d.msg))>>} ELSE {}

\* C10: a handle() call of one connection task touches no other socket,
\* and what it writes to its own socket is the response to the request it
\* read from that socket, in every interleaving of the tasks.
C10_Isolation ==
    [][\A c \in Conns :
        HandleStep(c) =>
            /\ \A d \in Conns \ {c} : out'[d] = out[d] /\ inbox'[d] = inbox[d]
            /\ \E w \in Replies(inbox[c]) : out'[c] = out[c] \o w
            /\ \A m \in ClientMsgs :
                (/\ inbox[c] = EncodeClient(m)
                 /\ Len(inbox[c]) <= BufCap
                 /\ taskPc'[c] = "loop") =>
                    out'[c] = Append(out[c], EncodeServer(Expected(m)))]_vars

C10_Witness ==
    /\ out[1] = <<EncodeServer(ServerEcho(<<1>>))>>
    /\ out[2] = <<EncodeServer(AddResponse(IntMin))>>
    /\ TaskAlive(1) /\ TaskAlive(2)

\* C11: when a client has closed its socket, its connection task eventually
\* has decremented the counter and terminated; a handle() call of one task
\* leaves every other task where it is.
C11_GracefulDisconnect ==
    /\ \A c \in Conns :
        (cli[c] = "closed" /\ InTaskLoop(c)) ~> (taskPc[c] = "done" /\ decs[c] = 1)
    /\ [][\A c \in Conns : HandleStep(c) =>
            \A d \in Conns \ {c} : taskPc'[d] = taskPc[d]]_vars

\* C14: once run() is inside its accept loop it returns only when the flag
\* is false, and then it returns Ok.
C14_OnlyStopEndsRun ==
    [][(InAcceptLoop /\ SrvTerminated') => (srvPc' = "ok" /\ ~is_running)]_vars

C18_RunNeverWaitsForTasks ==
    (srvPc = "loop" /\ ~is_running) => ENABLED SrvLoop

\* run() has returned Ok, a task is still in its loop and the counter is positive
C18_Witness ==
    /\ srvPc = "ok"
    /\ \E c \in Conns : InTaskLoop(c)
    /\ connection_count > 0

\* a spawned task that has not executed its decrement (a panicked task never will)
Undecremented(c) == taskPc[c] \in {"loop", "handle", "lock", "crit", "panicked"}

\* C19: connection_count is at least the number of connection tasks that
\* have not yet executed their decrement, and is never negative.
C19_CounterCoversTasks ==
    /\ connection_count >= Cardinality({c \in Conns : Undecremented(c)})
    /\ connection_count >= 0

\* one task runs and a second connection is counted but not yet spawned
C19_Witness ==
    /\ Cardinality({c \in Conns : Undecremented(c)}) = 1
    /\ connection_count = 2

\* a thread is blocked in lock()
WaitsForMutex(t) == IF t = SERVER THEN srvPc = "lock" ELSE taskPc[t] = "lock"

\* C20: every thread that tries to acquire the mutex eventually acquires it,
\* and every holder releases it: a thread leaves lock() only as the holder,
\* and again and again the mutex is free with no thread waiting for it.
C20_MutexAcquired ==
    /\ []<>(mutex = FREE /\ \A t \in Conns \cup {SERVER} : ~WaitsForMutex(t))
    /\ [][\A t \in Conns \cup {SERVER} :
            (WaitsForMutex(t) /\ ~WaitsForMutex(t)') => (mutex = FREE /\ mutex' = t)]_vars

\* the accept loop waits for the mutex while a connection task holds it
C20_Witness ==
    /\ srvPc = "lock"
    /\ mutex \in Conns

\* C15: no handle() call returns Err(e) for a would-block condition.
C15_WouldBlockContinues == \A c \in Conns : task_err[c] # "WouldBlock"

\* the cells one handle() call has read from the socket of c
ReadCells(c) == SubSeq(inbox[c], 1, Len(inbox[c]) - Len(inbox'[c]))

\* the cells decode to an envelope whose oneof is set
HasVariant(cells) ==
    /\ cells # <<>>
    /\ \E d \in {DecodeClient(cells)} : d.ok /\ d.msg.kind # "none"

\* C17: a handle() call writes a response only if the cells it read decode
\* to an envelope with a variant set, and it writes one whenever they do and
\* no socket operation fails; cells that fail to decode or decode to an
\* empty envelope give no response and the result Continue.
C17_ResponseIffDecoded ==
    [][\A c \in Conns : HandleStep(c) =>
        /\ (out'[c] # out[c]) => HasVariant(ReadCells(c))
        /\ (HasVariant(ReadCells(c)) /\ task_err'[c] = "none") => (out'[c] # out[c])
        /\ (ReadCells(c) # <<>> /\ ~HasVariant(ReadCells(c)))
              => (out'[c] = out[c] /\ taskPc'[c] = "loop")]_vars

\* the cells are the encoding of a request
ValidRequest(cells) == \E m \in ClientMsgs : EncodeClient(m) = cells

RequestOf(cells) == CHOOSE m \in ClientMsgs : EncodeClient(m) = cells

\* the expected response to the request of these cells, as written to the socket
Answer(cells) == EncodeServer(Expected(RequestOf(cells)))

LastSent(c) == sent[c][Len(sent[c])]

\* the client's latest message was sent after a read of the connection had
\* failed to decode, it is a request, and the task has read everything
SentAfterFailureAndRead(c) ==
    /\ sent[c] # <<>>
    /\ LastSent(c).after_failure
    /\ ValidRequest(LastSent(c).msg)
    /\ inbox[c] = <<>>
    /\ InTaskLoop(c)

\* the latest response answers the client's latest message
LastAnswered(c) ==
    /\ Len(out[c]) > LastSent(c).answered
    /\ out[c][Len(out[c])] = Answer(LastSent(c).msg)

\* a read whose cells fail to decode: no response, Continue, the task goes on
UndecodedIsSkipped ==
    \A c \in Conns :
        (HandleStep(c) /\ ReadCells(c) # <<>> /\ ~DecodeClient(ReadCells(c)).ok)
            => (out'[c] = out[c] /\ taskPc'[c] = "loop" /\ failed'[c])

\* C12 (as stated): a read whose cells fail to decode gives no response and
\* Continue, and any request sent afterwards has been answered correctly
\* once the task has read it.
C12_ValidAfterMalformedAnswered ==
    /\ [][UndecodedIsSkipped]_vars
    /\ [](\A c \in Conns : SentAfterFailureAndRead(c) => LastAnswered(c))

\* C12 (amended): a read whose cells fail to decode gives no response and
\* Continue, and a request sent afterwards into an emptied socket and
\* fitting the buffer has been answered correctly once the task has read it.
C12_ValidAloneAfterMalformedAnswered ==
    /\ [][UndecodedIsSkipped]_vars
    /\ [](\A c \in Conns :
            (/\ SentAfterFailureAndRead(c)
             /\ LastSent(c).pending = <<>>
             /\ Len(LastSent(c).msg) <= BufCap) => LastAnswered(c))

\* a request sent alone after a failed decode has been answered
C12_Witness ==
    /\ failed[1]
    /\ SentAfterFailureAndRead(1)
    /\ LastSent(1).pending = <<>>
    /\ LastAnswered(1)

\* the client sent each message after it had received a response to every
\* earlier one
Waited(c) == \A i \in 1..Len(sent[c]) : sent[c][i].answered = i - 1

\* a handle() call appends at most one response after the earlier ones
AppendsAtMostOne ==
    \A c \in Conns : HandleStep(c) =>
        /\ Len(out'[c]) <= Len(out[c]) + 1
        /\ SubSeq(out'[c], 1, Len(out[c])) = out[c]

\* the i-th response answers the i-th message, for every response so far
AnswersInOrder(c) ==
    \A i \in 1..Len(out[c]) :
        /\ i <= Len(sent[c])
        /\ ValidRequest(sent[c][i].msg)
        /\ out[c][i] = Answer(sent[c][i].msg)

\* C13 (as stated): responses are appended in the order of the reads, at
\* most one per read, and a client that waits for each response before it
\* sends the next request receives the responses in the order of its requests.
C13_ResponsesInOrder ==
    /\ [][AppendsAtMostOne]_vars
    /\ [](\A c \in Conns : Waited(c) => AnswersInOrder(c))

\* C13 (amended): the same, for a client whose requests each fit the buffer.
C13_ResponsesInOrderWithinBuffer ==
    /\ [][AppendsAtMostOne]_vars
    /\ [](\A c \in Conns :
            (Waited(c) /\ \A i \in 1..Len(sent[c]) : Len(sent[c][i].msg) <= BufCap)
                => AnswersInOrder(c))

\* two different requests, the second sent after the first response, both answered
C13_Witness ==
    /\ Waited(1)
    /\ Len(sent[1]) = 2 /\ Len(out[1]) = 2
    /\ sent[1][1].msg # sent[1][2].msg

====
